---- MODULE Spec2Model ----
(***************************************************************************)
(* Model of Ncaa.stats (src/scraping/scraper.py, lines 159-308): the       *)
(* school -> season -> category -> situation scrape and the pandas         *)
(* aggregation that follows it.                                            *)
(*                                                                         *)
(* A python dict is a sequence of [k, v] entries in insertion order with   *)
(* distinct keys.  A DataFrame is a sequence of rows; a row carries its    *)
(* index path (the keys pd.concat has put in front of it), the ordinal it  *)
(* had in the parsed table and the identity of the table it was parsed     *)
(* from.  An uncaught python exception ends the run: pc = "raised".        *)
(***************************************************************************)
EXTENDS Integers, Sequences, FiniteSets, TLC

VARIABLES
    school_ids,   \* the argument of stats: the school names, in dict order
    site,         \* the labels the site uses in this run: [seasons, options]
    pc,           \* position in stats
    err,          \* the uncaught exception: [type, line], line 0 when none
    v,            \* line 176/181: schools started
    master,       \* line 175: dict school -> school_stats
    school_dict,  \* line 183: dict season label -> year_stats
    year_ids,     \* line 184: dict season label -> href
    yi,           \* seasons of year_ids already iterated (line 203)
    soup,         \* the last parsed page (lines 192, 212, 241)
    hitting,      \* line 205: dict, then DataFrame after line 272
    pitching,     \* line 206
    fielding,     \* line 207
    ci,           \* entries of the category dict already posted (223, 250)
    session,      \* the requests.session in use, 0 before the first one
    nsession,     \* sessions created so far
    posts,        \* every POST issued: [session, school, year, stat]
    ntable,       \* tables parsed so far by pd.read_html
    variants,     \* every dropdown label read: [school, year, stat, situation]
    master_stats, \* line 288
    written,      \* number of to_sql calls that stored the frame
    stored,       \* the rows in the sql table
    returned      \* TRUE once stats has returned master_stats

vars == <<school_ids, site, pc, err, v, master, school_dict, year_ids, yi, soup,
          hitting, pitching, fielding, ci, session, nsession,
          posts, ntable, variants, master_stats, written, stored, returned>>

(***************************************************************************)
(* Bounds of the inputs.                                                   *)
(***************************************************************************)
MaxSchools == 2
MaxAnchors == 5
MaxOptions == 2

\* the keys of school_ids, in the order school_id_grabber inserted them
SchoolNames == <<"Alabama", "Baylor", "Clemson", "Duke">>

\* line 200: the season label that is popped
Excluded == "2010-11"

\* line 196: year_tags[2:]
SkippedAnchors == 2

\* What the pages of one run are made of: either a site whose schools have
\* one season besides the excluded one and two situations, or a site whose
\* schools have two seasons besides the excluded one and one situation.
Sites ==
    {[seasons |-> {Excluded, "2014-15"}, options |-> {"Overall", "Conference"}],
     [seasons |-> {Excluded, "2014-15", "2015-16"}, options |-> {"Overall"}]}

Min(a, b) == IF a < b THEN a ELSE b

(***************************************************************************)
(* python dict                                                             *)
(***************************************************************************)
Keys(d) == [i \in 1..Len(d) |-> d[i].k]

HasKey(d, key) == \E i \in 1..Len(d) : d[i].k = key

\* d[key] = val: an existing key keeps its position and takes the new value
DictSet(d, key, val) ==
    IF HasKey(d, key)
    THEN [i \in 1..Len(d) |-> IF d[i].k = key THEN [k |-> key, v |-> val] ELSE d[i]]
    ELSE Append(d, [k |-> key, v |-> val])

\* d.pop(key), for a key that is present
DictPop(d, key) == SelectSeq(d, LAMBDA e : e.k # key)

(***************************************************************************)
(* pandas                                                                  *)
(***************************************************************************)
\* a selector value, as stored in the category dict before its POST
Selector(n) == [isdf |-> FALSE, sel |-> n, rows |-> <<>>]

\* a DataFrame as a dict value
Frame(rows) == [isdf |-> TRUE, sel |-> 0, rows |-> rows]

\* pd.read_html(...)[2]: table number t; every table is taken to have two
\* rows, numbered from 0
ReadHtml(t) ==
    <<[path |-> <<>>, num |-> 0, tbl |-> t], [path |-> <<>>, num |-> 1, tbl |-> t]>>

\* one frame with key put in front of every row's index
Keyed(key, rows) ==
    [i \in 1..Len(rows) |->
        [path |-> <<key>> \o rows[i].path, num |-> rows[i].num, tbl |-> rows[i].tbl]]

RECURSIVE ConcatRows(_)
\* the rows of pd.concat(d, keys=d.keys())
ConcatRows(d) ==
    IF d = <<>> THEN <<>>
    ELSE Keyed(d[1].k, d[1].v.rows) \o ConcatRows(Tail(d))

\* pd.concat raises ValueError on nothing to concatenate, TypeError on a
\* value that is not a frame
ConcatError(d) ==
    IF d = <<>> THEN "ValueError"
    ELSE IF \E i \in 1..Len(d) : ~d[i].v.isdf THEN "TypeError"
    ELSE ""

(***************************************************************************)
(* The pages the site can serve.  A season anchor's href is the address of *)
(* the season it names, an option's value its position in the dropdown.    *)
(***************************************************************************)
SeqsUpTo(S, n) == UNION {[1..m -> S] : m \in 0..n}

Anchors(labels) ==
    [i \in 1..Len(labels) |-> [text |-> labels[i], href |-> <<"/team", labels[i]>>]]

Options(labels) == [i \in 1..Len(labels) |-> [text |-> labels[i], value |-> i]]

\* a school's landing page: its year_stat_category anchors
LandingPages ==
    {[anchors |-> Anchors(l), select3 |-> FALSE, options |-> <<>>] :
        l \in SeqsUpTo(site.seasons, MaxAnchors)}

\* a category page (hitting, pitching): whether it has a third select, and
\* that select's options
CategoryPages ==
    {[anchors |-> <<>>, select3 |-> TRUE, options |-> Options(l)] :
        l \in SeqsUpTo(site.options, MaxOptions)}
    \cup {[anchors |-> <<>>, select3 |-> FALSE, options |-> <<>>]}

NoPage == [anchors |-> <<>>, select3 |-> FALSE, options |-> <<>>]

(***************************************************************************)
(* Helpers of stats                                                        *)
(***************************************************************************)
school == school_ids[v]

year_val == year_ids[yi].k

RECURSIVE YearIds(_, _)
\* lines 196-197: year_ids[year_tag.text] = year_tag.get('href')
YearIds(d, tags) ==
    IF tags = <<>> THEN d
    ELSE YearIds(DictSet(d, tags[1].text, tags[1].href), Tail(tags))

\* year_tags[2:]
SkipAnchors(tags) == SubSeq(tags, SkippedAnchors + 1, Len(tags))

\* mutant of DropDown: the options kept as a list, a label as often as listed
DropDownAll(d, opts) ==
    d \o [i \in 1..Len(opts) |-> [k |-> opts[i].text, v |-> Selector(opts[i].value)]]

RECURSIVE DropDown(_, _)
\* lines 217-218, 245-246: hitting[d.text] = d.get('value')
DropDown(d, opts) ==
    IF opts = <<>> THEN d
    ELSE DropDown(DictSet(d, opts[1].text, Selector(opts[1].value)), Tail(opts))

NoError == [type |-> "", line |-> 0]

\* an exception nothing catches, raised at the given line of scraper.py
Raise(e, line) == /\ pc' = "raised"
                  /\ err' = [type |-> e, line |-> line]

\* the dropdown labels of a category of the current season
Discovered(year, stat, opts) ==
    {[school |-> school, year |-> year, stat |-> stat,
      situation |-> opts[i].text] : i \in 1..Len(opts)}

Post(stat) == [session |-> session, school |-> school, year |-> year_val,
               stat |-> stat]

(***************************************************************************)
(* Init: stats is called with the dict school_id_grabber returned.         *)
(***************************************************************************)
Init ==
    /\ school_ids \in {SubSeq(SchoolNames, 1, n) :
                          n \in 0..Min(MaxSchools, Len(SchoolNames))}
    /\ site \in Sites
    /\ pc = "schools"
    /\ err = NoError
    /\ v = 0
    /\ master = <<>>
    /\ school_dict = <<>>
    /\ year_ids = <<>>
    /\ yi = 0
    /\ soup = NoPage
    /\ hitting = <<>>
    /\ pitching = <<>>
    /\ fielding = <<>>
    /\ ci = 0
    /\ session = 0
    /\ nsession = 0
    /\ posts = {}
    /\ ntable = 0
    /\ variants = {}
    /\ master_stats = <<>>
    /\ written = 0
    /\ stored = <<>>
    /\ returned = FALSE

(***************************************************************************)
(* Lines 179-192: the next school; fetch and parse its landing page.       *)
(***************************************************************************)
FetchLanding ==
    /\ pc = "schools"
    /\ v < Len(school_ids)
    /\ v' = v + 1
    /\ yi' = 0
    /\ school_dict' = <<>>
    /\ year_ids' = <<>>
    /\ \/ /\ Raise("URLError", 191)
          /\ UNCHANGED soup
       \/ /\ \E page \in LandingPages : soup' = page
          /\ pc' = "enumerate"
          /\ UNCHANGED err
    /\ UNCHANGED <<school_ids, site, master, hitting, pitching,
                   fielding, ci, session, nsession, posts, ntable, variants, master_stats,
                   written, stored, returned>>

(***************************************************************************)
(* Lines 194-200: the seasons of the school, without the first two anchors *)
(* and without 2010-11.  dict.pop without a default raises KeyError when   *)
(* the key is absent.                                                      *)
(***************************************************************************)
EnumerateSeasons ==
    /\ pc = "enumerate"
    /\ LET ids == YearIds(<<>>, SkipAnchors(soup.anchors))
       IN  IF HasKey(ids, Excluded)
           THEN /\ year_ids' = DictPop(ids, Excluded)
                /\ pc' = "years"
                /\ UNCHANGED err
           ELSE /\ year_ids' = ids
                /\ Raise("KeyError", 200)
    /\ UNCHANGED <<school_ids, site, v, master, school_dict, yi, soup,
                   hitting, pitching, fielding, ci, session,
                   nsession, posts, ntable, variants, master_stats, written, stored, returned>>

(***************************************************************************)
(* Lines 203-218: the next season; fetch its page and read the hitting     *)
(* dropdown, the third select of the page.                                 *)
(***************************************************************************)
FetchSeason ==
    /\ pc = "years"
    /\ yi < Len(year_ids)
    /\ yi' = yi + 1
    /\ pitching' = <<>>
    /\ fielding' = <<>>
    /\ \/ /\ Raise("URLError", 211)
          /\ hitting' = <<>>
          /\ UNCHANGED <<soup, variants>>
       \/ \E page \in CategoryPages :
            /\ soup' = page
            /\ IF page.select3
               THEN /\ hitting' = DropDown(<<>>, page.options)
                    /\ variants' = variants \cup
                           Discovered(year_ids[yi + 1].k, "hitting", page.options)
                    /\ pc' = "hit_session"
                    /\ UNCHANGED err
               ELSE /\ hitting' = <<>>
                    /\ Raise("IndexError", 215)
                    /\ UNCHANGED variants
    /\ UNCHANGED <<school_ids, site, v, master, school_dict, year_ids,
                   ci, session, nsession, posts, ntable,
                   master_stats, written, stored, returned>>

(***************************************************************************)
(* Line 220: session = requests.session()                                  *)
(***************************************************************************)
OpenHittingSession ==
    /\ pc = "hit_session"
    /\ nsession' = nsession + 1
    /\ session' = nsession + 1
    /\ ci' = 0
    /\ pc' = "hit_posts"
    /\ UNCHANGED <<school_ids, site, err, v, master, school_dict, year_ids, yi,
                   soup, hitting, pitching, fielding, posts,
                   ntable, variants, master_stats, written, stored, returned>>

(***************************************************************************)
(* Lines 223-232: POST the next hitting variant on the session and parse   *)
(* the third table of the response.                                        *)
(***************************************************************************)
HittingPost ==
    /\ pc = "hit_posts"
    /\ ci < Len(hitting)
    /\ ci' = ci + 1
    /\ posts' = posts \cup {Post("hitting")}
    /\ \/ /\ Raise("ConnectionError", 226)
          /\ UNCHANGED <<hitting, ntable>>
       \/ /\ Raise("ValueError", 231)
          /\ UNCHANGED <<hitting, ntable>>
       \/ /\ ntable' = ntable + 1
          /\ hitting' = DictSet(hitting, hitting[ci + 1].k, Frame(ReadHtml(ntable + 1)))
          /\ UNCHANGED <<pc, err>>
    /\ UNCHANGED <<school_ids, site, variants, v, master, school_dict, year_ids,
                   yi, soup,
                   pitching, fielding, session, nsession,
                   master_stats, written, stored, returned>>

(***************************************************************************)
(* Lines 235-246: follow the first category link to the pitching page and  *)
(* read its dropdown.  The season page may have no category link.          *)
(***************************************************************************)
FetchPitching ==
    /\ pc = "hit_posts"
    /\ ci = Len(hitting)
    /\ \/ /\ Raise("IndexError", 236)
          /\ UNCHANGED <<soup, pitching, variants>>
       \/ /\ Raise("URLError", 240)
          /\ UNCHANGED <<soup, pitching, variants>>
       \/ \E page \in CategoryPages :
            /\ soup' = page
            /\ IF page.select3
               THEN /\ pitching' = DropDown(pitching, page.options)
                    /\ variants' = variants \cup
                           Discovered(year_val, "pitching", page.options)
                    /\ pc' = "pitch_session"
                    /\ UNCHANGED err
               ELSE /\ Raise("IndexError", 243)
                    /\ UNCHANGED <<pitching, variants>>
    /\ UNCHANGED <<school_ids, site, v, master, school_dict, year_ids, yi,
                   hitting, fielding, ci, session, nsession, posts, ntable,
                   master_stats, written, stored, returned>>

\* mutant of OpenPitchingSession: line 248 left out, the hitting session
\* stays in use
OpenPitchingSessionReused ==
    /\ pc = "pitch_session"
    /\ ci' = 0
    /\ pc' = "pitch_posts"
    /\ UNCHANGED <<school_ids, site, err, v, master, school_dict, year_ids, yi,
                   soup, hitting, pitching, fielding, session,
                   nsession, posts, ntable, variants, master_stats, written,
                   stored, returned>>

(***************************************************************************)
(* Line 248: session = requests.session()                                  *)
(***************************************************************************)
OpenPitchingSession ==
    /\ pc = "pitch_session"
    /\ nsession' = nsession + 1
    /\ session' = nsession + 1
    /\ ci' = 0
    /\ pc' = "pitch_posts"
    /\ UNCHANGED <<school_ids, site, err, v, master, school_dict, year_ids, yi,
                   soup, hitting, pitching, fielding, posts,
                   ntable, variants, master_stats, written, stored, returned>>

(***************************************************************************)
(* Lines 250-259: POST the next pitching variant.                          *)
(***************************************************************************)
PitchingPost ==
    /\ pc = "pitch_posts"
    /\ ci < Len(pitching)
    /\ ci' = ci + 1
    /\ posts' = posts \cup {Post("pitching")}
    /\ \/ /\ Raise("ConnectionError", 253)
          /\ UNCHANGED <<pitching, ntable>>
       \/ /\ Raise("ValueError", 258)
          /\ UNCHANGED <<pitching, ntable>>
       \/ /\ ntable' = ntable + 1
          /\ pitching' = DictSet(pitching, pitching[ci + 1].k, Frame(ReadHtml(ntable + 1)))
          /\ UNCHANGED <<pc, err>>
    /\ UNCHANGED <<school_ids, site, variants, v, master, school_dict, year_ids,
                   yi, soup,
                   hitting, fielding, session, nsession,
                   master_stats, written, stored, returned>>

(***************************************************************************)
(* Lines 261-269: follow the second category link and parse the fielding   *)
(* table; no session, no dropdown.  The season page may have had no second *)
(* category link.                                                          *)
(***************************************************************************)
FetchFielding ==
    /\ pc = "pitch_posts"
    /\ ci = Len(pitching)
    /\ \/ /\ Raise("IndexError", 261)
          /\ UNCHANGED <<fielding, ntable>>
       \/ /\ Raise("URLError", 267)
          /\ UNCHANGED <<fielding, ntable>>
       \/ /\ Raise("ValueError", 268)
          /\ UNCHANGED <<fielding, ntable>>
       \/ /\ ntable' = ntable + 1
          /\ fielding' = DictSet(fielding, "Fielding", Frame(ReadHtml(ntable + 1)))
          /\ pc' = "concat_year"
          /\ UNCHANGED err
    /\ UNCHANGED <<school_ids, site, variants, v, master, school_dict, year_ids,
                   yi, soup,
                   hitting, pitching, ci, session, nsession,
                   posts, master_stats, written, stored, returned>>

\* mutant of YearStats: the fielding frame left out of the season
YearStatsNoFielding(h, p, f) ==
    Keyed("hitting", h) \o Keyed("pitching", p)

\* line 278: pd.concat([hitting, pitching, fielding], keys=[...])
YearStats(h, p, f) ==
    Keyed("hitting", h) \o Keyed("pitching", p) \o Keyed("fielding", f)

(***************************************************************************)
(* Lines 272-281: the situations of each category into one frame, the      *)
(* three categories into the season's frame, stored under the season.      *)
(***************************************************************************)
ConcatSeason ==
    /\ pc = "concat_year"
    /\ IF ConcatError(hitting) # ""
       THEN /\ Raise(ConcatError(hitting), 272)
            /\ UNCHANGED <<hitting, pitching, fielding, school_dict>>
       ELSE IF ConcatError(pitching) # ""
       THEN /\ Raise(ConcatError(pitching), 273)
            /\ hitting' = ConcatRows(hitting)
            /\ UNCHANGED <<pitching, fielding, school_dict>>
       ELSE IF ConcatError(fielding) # ""
       THEN /\ Raise(ConcatError(fielding), 274)
            /\ hitting' = ConcatRows(hitting)
            /\ pitching' = ConcatRows(pitching)
            /\ UNCHANGED <<fielding, school_dict>>
       ELSE /\ hitting' = ConcatRows(hitting)
            /\ pitching' = ConcatRows(pitching)
            /\ fielding' = ConcatRows(fielding)
            /\ school_dict' = DictSet(school_dict, year_val,
                   Frame(YearStats(ConcatRows(hitting), ConcatRows(pitching),
                                   ConcatRows(fielding))))
            /\ pc' = "years"
            /\ UNCHANGED err
    /\ UNCHANGED <<school_ids, site, v, master, year_ids, yi, soup,
                   ci, session, nsession, posts, ntable,
                   variants, master_stats, written, stored, returned>>

\* mutant of ConcatSchool: each school's frame is written to sql as soon as
\* it is built
ConcatSchoolFlush ==
    /\ pc = "years"
    /\ yi = Len(year_ids)
    /\ IF ConcatError(school_dict) # ""
       THEN /\ Raise(ConcatError(school_dict), 284)
            /\ UNCHANGED <<master, written, stored>>
       ELSE /\ master' = DictSet(master, school, Frame(ConcatRows(school_dict)))
            /\ written' = written + 1
            /\ stored' = stored \o Keyed(school, ConcatRows(school_dict))
            /\ pc' = "schools"
            /\ UNCHANGED err
    /\ UNCHANGED <<school_ids, site, v, school_dict, year_ids, yi, soup,
                   hitting, pitching, fielding, ci, session,
                   nsession, posts, ntable, variants, master_stats, returned>>

(***************************************************************************)
(* Lines 284-285: the seasons of the school into one frame.                *)
(***************************************************************************)
ConcatSchool ==
    /\ pc = "years"
    /\ yi = Len(year_ids)
    /\ IF ConcatError(school_dict) # ""
       THEN /\ Raise(ConcatError(school_dict), 284)
            /\ UNCHANGED master
       ELSE /\ master' = DictSet(master, school, Frame(ConcatRows(school_dict)))
            /\ pc' = "schools"
            /\ UNCHANGED err
    /\ UNCHANGED <<school_ids, site, v, school_dict, year_ids, yi, soup,
                   hitting, pitching, fielding, ci, session,
                   nsession, posts, ntable, variants, master_stats, written,
                   stored, returned>>

(***************************************************************************)
(* Lines 288-290: the schools into the master frame.                       *)
(***************************************************************************)
ConcatMaster ==
    /\ pc = "schools"
    /\ v = Len(school_ids)
    /\ IF ConcatError(master) # ""
       THEN /\ Raise(ConcatError(master), 288)
            /\ UNCHANGED master_stats
       ELSE /\ master_stats' = ConcatRows(master)
            /\ pc' = "to_sql"
            /\ UNCHANGED err
    /\ UNCHANGED <<school_ids, site, v, master, school_dict, year_ids, yi, soup,
                   hitting, pitching, fielding, ci, session,
                   nsession, posts, ntable, variants, written, stored, returned>>

(***************************************************************************)
(* Lines 294-306: append the master frame to the sql table.                *)
(***************************************************************************)
ToSql ==
    /\ pc = "to_sql"
    /\ \/ /\ Raise("OperationalError", 299)
          /\ UNCHANGED <<written, stored>>
       \/ /\ written' = written + 1
          /\ stored' = stored \o master_stats
          /\ pc' = "return"
          /\ UNCHANGED err
    /\ UNCHANGED <<school_ids, site, v, master, school_dict, year_ids, yi, soup,
                   hitting, pitching, fielding, ci, session,
                   nsession, posts, ntable, variants, master_stats, returned>>

(***************************************************************************)
(* Line 308: return master_stats                                           *)
(***************************************************************************)
Return ==
    /\ pc = "return"
    /\ returned' = TRUE
    /\ pc' = "done"
    /\ UNCHANGED <<school_ids, site, err, v, master, school_dict, year_ids, yi,
                   soup, hitting, pitching, fielding, ci, session,
                   nsession, posts, ntable, variants, master_stats, written, stored>>

Next ==
    \/ FetchLanding
    \/ EnumerateSeasons
    \/ FetchSeason
    \/ OpenHittingSession
    \/ HittingPost
    \/ FetchPitching
    \/ OpenPitchingSession
    \/ PitchingPost
    \/ FetchFielding
    \/ ConcatSeason
    \/ ConcatSchool
    \/ ConcatMaster
    \/ ToSql
    \/ Return

Spec == Init /\ [][Next]_vars

(***************************************************************************)
(* Properties                                                              *)
(***************************************************************************)
\* the last n components of a row's index path
Last(path, n) == SubSeq(path, Len(path) - n + 1, Len(path))

\* the (category, situation) pairs among the rows of a frame
Pairs(rows) == {Last(rows[i].path, 2) : i \in 1..Len(rows)}

\* the pairs a season must show: every dropdown label read for hitting and
\* pitching, and the one fielding table
ExpectedPairs(s, y) ==
    {<<x.stat, x.situation>> : x \in {z \in variants : z.school = s /\ z.year = y}}
    \cup {<<"fielding", "Fielding">>}

\* the rows of the master frame that belong to one (school, season)
SeasonRows(s, y) ==
    SelectSeq(master_stats, LAMBDA r : r.path[1] = s /\ r.path[2] = y)

\* line 200 has run on the landing page that soup still holds
Enumerated ==
    \/ pc = "years" /\ yi = 0
    \/ pc = "raised" /\ err.line = 200

\* the season anchors of the landing page: all but the first two
Listed == SkipAnchors(soup.anchors)

RECURSIVE OrderedLabels(_, _)
\* the labels of the anchors in page order, each once, without the excluded
OrderedLabels(tags, seen) ==
    IF tags = <<>> THEN <<>>
    ELSE IF tags[1].text \in seen \/ tags[1].text = Excluded
         THEN OrderedLabels(Tail(tags), seen)
         ELSE <<tags[1].text>> \o OrderedLabels(Tail(tags), seen \cup {tags[1].text})

\* C1: every row of the master frame has all four levels of the (school,
\* season, category, situation) path, and a path identifies one fetched
\* table: rows under the same path come from the same table and are distinct
\* rows of it.
C1_PathIdentifiesOneTable ==
    \A i \in 1..Len(master_stats) :
        /\ Len(master_stats[i].path) = 4
        /\ \A j \in 1..Len(master_stats) :
              (j # i /\ master_stats[j].path = master_stats[i].path)
                  => /\ master_stats[j].tbl = master_stats[i].tbl
                     /\ master_stats[j].num # master_stats[i].num

\* a master frame built in a run whose last dropdown repeated a label
C1_Witness ==
    /\ pc = "done"
    /\ Len(school_ids) = 2
    /\ Len(soup.options) = 2
    /\ soup.options[1].text = soup.options[2].text
    /\ \E i \in 1..Len(master_stats) : master_stats[i].path[3] = "pitching"

\* C2: a failed POST or an unparsable response for one situation does not
\* end the run (the season's other tables are still aggregated).
C2_VariantFailureIsSkipped ==
    ~(pc = "raised" /\ err.line \in {226, 231, 253, 258})

\* C3: for a landing page that lists a season other than the excluded one,
\* whether or not it lists the excluded label, the season set is the listed
\* labels without the excluded one and the run goes on.
C3_ExclusionRemovesOnlyThatSeason ==
    (Enumerated /\ \E i \in 1..Len(Listed) : Listed[i].text # Excluded) =>
        /\ pc # "raised"
        /\ {year_ids[i].k : i \in 1..Len(year_ids)}
               = {Listed[i].text : i \in 1..Len(Listed)} \ {Excluded}

\* C4: a school with no season left after the skip and the exclusion does
\* not end the run when its (empty) seasons are aggregated.
C4_EmptySchoolIsSkipped ==
    ~(pc = "raised" /\ year_ids = <<>> /\ err.line = 284)

\* C5: a category whose dropdown has no option gives no rows and leaves the
\* other categories of the season in place: aggregating it does not end the
\* run.
C5_EmptyCategoryGivesNoRows ==
    ~(pc = "raised" /\ err.line \in {272, 273} /\ err.type = "ValueError")

\* C6: a session is used for the POSTs of one (school, season, category)
\* only, every (school, season, category) posts on one session of its own,
\* and the pitching session of a season is created after its hitting session.
C6_SessionIsolation ==
    \A p \in posts : \A q \in posts :
        /\ p.session >= 1
        /\ (p.session = q.session)
              <=> (p.school = q.school /\ p.year = q.year /\ p.stat = q.stat)
        /\ (p.school = q.school /\ p.year = q.year
              /\ p.stat = "hitting" /\ q.stat = "pitching")
              => q.session > p.session

\* hitting and pitching POSTs of the same season, in two seasons
C6_Witness ==
    /\ \E p \in posts : \E q \in posts :
          /\ p.school = q.school /\ p.year = q.year
          /\ p.stat = "hitting" /\ q.stat = "pitching"
    /\ Cardinality({<<p.school, p.year>> : p \in posts}) >= 2

\* C7: a failure on a school's landing page or on a season's base page does
\* not end the run (only that school, or that season, is skipped).
C7_PageFailureIsSkipped ==
    ~(pc = "raised" /\ err.line \in {191, 211, 215})

C9_SeasonEnumeration ==
    Enumerated =>
        /\ pc # "raised"
        /\ Keys(year_ids) = OrderedLabels(Listed, {})
        /\ (Len(soup.anchors) < 3 => year_ids = <<>>)

\* C10: to_sql stores the frame at most once, and only when every school of
\* school_ids has been fetched and aggregated; a run that raised before
\* to_sql has stored nothing, and a run that raised has returned nothing.
C10_WriteOnceAtEnd ==
    /\ written <= 1
    /\ written = 1 =>
          /\ v = Len(school_ids)
          /\ Keys(master) = school_ids
          /\ stored = master_stats
          /\ pc \in {"return", "done"}
    /\ returned => written = 1 /\ pc = "done"
    /\ pc = "raised" => ~returned
    /\ (pc = "raised" /\ err.line < 294) => written = 0 /\ stored = <<>>

\* the frame of two schools has been stored and returned
C10_Witness ==
    /\ pc = "done"
    /\ written = 1
    /\ returned
    /\ Len(school_ids) = 2
    /\ stored # <<>>

====
